---------------------------- MODULE Spec2Model ----------------------------
(***************************************************************************)
(* HMAC-SHA256 (lib/source/hmac.c) and HMAC-PRNG (lib/source/hmac_prng.c)  *)
(* of TinyCrypt as state machines.                                         *)
(*                                                                         *)
(* Every C function is an operator that takes the values its pointer       *)
(* arguments point to (or NULL) and returns a record holding the return    *)
(* code and the new values of everything it may write.  The actions at the *)
(* end of the module are the calls a program makes on caller-owned state.  *)
(*                                                                         *)
(* SHA-256 is a collaborator that is not part of these sources.  It is     *)
(* modelled by its contract: a streaming state that absorbs bytes and a    *)
(* 32-byte digest that is a fixed function of the absorbed bytes.          *)
(***************************************************************************)
EXTENDS Integers, Sequences, FiniteSets, Bags, TLC

VARIABLES
    prng,       \* the caller's struct tc_hmac_prng_struct
    out,        \* the caller's output buffer handed to tc_hmac_prng_generate
    call,       \* the last DRBG call: its operation, arguments and return code
    pre,        \* prng, out and hist as they were when the last call was made
    hist,       \* history: position in the spec's state machine, generates counted
    steps,      \* calls counted so far: DRBG calls, or successful HMAC calls
    twin,       \* a second caller-owned DRBG state
    twinOut,    \* the output buffer used with twin
    twinCall,   \* the last DRBG call made on twin
    solo,       \* prng with out, and twin with twinOut, each under its own calls alone
    hm,         \* a caller's struct tc_hmac_state_struct used directly
    tag,        \* the caller's tag buffer handed to tc_hmac_final
    hcall,      \* the last HMAC call: its operation, arguments and return code
    hpre,       \* hm and tag as they were when the last HMAC call was made
    hhist       \* history: key set, key and chunks of the running MAC

prngVars == <<prng, out, call, pre, hist>>
twinVars == <<twin, twinOut, twinCall, solo>>
hmacVars == <<hm, tag, hcall, hpre, hhist>>
vars == <<prng, out, call, pre, hist, steps, twin, twinOut, twinCall, solo,
          hm, tag, hcall, hpre, hhist>>

(***************************************************************************)
(* Bounds of the model.                                                    *)
(***************************************************************************)
\* DRBG calls in one behaviour
MaxSteps == 3
\* bytes in the caller's output buffer
OutCap == 66

(***************************************************************************)
(* Values.                                                                 *)
(***************************************************************************)
\* A pointer argument is NULL or Ptr(x), x being what it points to.
NULL == <<>>
Ptr(x) == <<x>>
Deref(p) == p[1]

TC_CRYPTO_SUCCESS == "SUCCESS"
TC_CRYPTO_FAIL == "FAIL"
TC_HMAC_PRNG_RESEED_REQ == "RESEED_REQUIRED"

TC_SHA256_BLOCK_SIZE == 64
TC_SHA256_DIGEST_SIZE == 32

Byte == 0..255

\* A uint32_t is the pair <<high 16 bits, low 16 bits>>.
U32(n) == <<n \div 65536, n % 65536>>
UINT32_MAX == <<65535, 65535>>
U32Gt(a, b) == a[1] > b[1] \/ (a[1] = b[1] /\ a[2] > b[2])
\* x-- on a uint32_t: 0 wraps to UINT32_MAX
U32Dec(x) ==
    IF x[2] > 0 THEN <<x[1], x[2] - 1>>
    ELSE IF x[1] > 0 THEN <<x[1] - 1, 65535>>
    ELSE UINT32_MAX

RECURSIVE XorBits(_, _, _)
XorBits(a, b, n) ==
    IF n = 0 THEN 0
    ELSE ((a + b) % 2) + 2 * XorBits(a \div 2, b \div 2, n - 1)
\* a ^ b on uint_least8_t values
Xor(a, b) == XorBits(a, b, 8)

\* utils: _set(to, val, len) gives len bytes of val
_set(val, len) == [i \in 1..len |-> val]

\* utils: _copy(to, to_len, from, from_len) writes from[0..from_len) at to+pos
_copy(to, pos, from, from_len) ==
    [i \in 1..Len(to) |->
        IF i > pos /\ i <= pos + from_len THEN from[i - pos] ELSE to[i]]

(***************************************************************************)
(* The SHA-256 collaborator.  A state is the chaining start it was set up  *)
(* from ("iv" after init, "zero" for all-zero memory, "spent" after final) *)
(* and the bytes absorbed since.                                           *)
(***************************************************************************)
ZeroSha256State == [base |-> "zero", msg |-> <<>>]

tc_sha256_init(s) == [base |-> "iv", msg |-> <<>>]

tc_sha256_update(s, data, datalen) ==
    IF datalen = 0 THEN s
    ELSE [s EXCEPT !.msg = @ \o SubSeq(data, 1, datalen)]

RECURSIVE PowMod(_, _, _)
\* b^k modulo p
PowMod(b, k, p) ==
    IF k = 0 THEN 1
    ELSE LET h == PowMod(b, k \div 2, p)
         IN  IF k % 2 = 0 THEN (h * h) % p ELSE (((h * h) % p) * b) % p

\* the longest byte string the digest is taken of
Sha256MaxLen == 320
Sha256Pow1 == [k \in 0..Sha256MaxLen |-> PowMod(263, k, 46337)]
Sha256Pow2 == [k \in 0..Sha256MaxLen |-> PowMod(521, k, 46327)]

\* absorbs msg into the chaining value start: a polynomial in the bytes,
\* start * b^n + the sum of ((msg[i] + 1) * b^(n - i)) % p + 1 over i in 1..n
\* (BagCardinality adds up the values of a function)
Sha256Absorb(start, msg, pow, p) ==
    IF Len(msg) = 0 THEN start
    ELSE (start * pow[Len(msg)]
          + BagCardinality([i \in 1..Len(msg) |->
                (((msg[i] + 1) * pow[Len(msg) - i]) % p) + 1])) % p

\* the 32 digest bytes read off the two chaining values
Sha256Bytes(a1, a2) ==
    [i \in 1..TC_SHA256_DIGEST_SIZE |->
        CASE i = 1 -> a1 % 256
          [] i = 2 -> a1 \div 256
          [] i = 3 -> a2 % 256
          [] i = 4 -> a2 \div 256
          [] OTHER -> (a1 * i + a2 * (i + 1) + i) % 256]

Sha256Start(base) ==
    CASE base = "iv" -> <<1, 2>>
      [] base = "zero" -> <<0, 0>>
      [] OTHER -> <<3, 5>>

\* The digest of an absorbed byte string: a fixed function of the chaining
\* start and the bytes, 32 bytes long.
Sha256Digest(s) ==
    Sha256Bytes(Sha256Absorb(Sha256Start(s.base)[1], s.msg, Sha256Pow1, 46337),
                Sha256Absorb(Sha256Start(s.base)[2], s.msg, Sha256Pow2, 46327))

\* tc_sha256_final(digest, s): the digest, and s invalidated until re-init
tc_sha256_final(s) ==
    [digest |-> Sha256Digest(s), s |-> [base |-> "spent", msg |-> <<>>]]

\* SHA256(bytes) in one go
Sha256(bytes) ==
    tc_sha256_final(tc_sha256_update(tc_sha256_init(ZeroSha256State),
                                     bytes, Len(bytes))).digest

(***************************************************************************)
(* hmac.c                                                                  *)
(***************************************************************************)
inner_pad == 54
outer_pad == 92

XorInnerPad == [b \in Byte |-> Xor(inner_pad, b)]
XorOuterPad == [b \in Byte |-> Xor(outer_pad, b)]

\* struct tc_hmac_state_struct with every byte zero
ZeroHmacState ==
    [key |-> _set(0, 2 * TC_SHA256_BLOCK_SIZE), hash_state |-> ZeroSha256State]

\* a rekey without its second loop: beyond key_size the schedule stays
rekey_unpadded(key, new_key, key_size) ==
    [j \in 1..Len(key) |->
        LET i == (j - 1) % TC_SHA256_BLOCK_SIZE
        IN  IF j > 2 * TC_SHA256_BLOCK_SIZE \/ i >= key_size THEN key[j]
            ELSE IF j <= TC_SHA256_BLOCK_SIZE
            THEN XorInnerPad[new_key[i + 1]]
            ELSE XorOuterPad[new_key[i + 1]]]

\* static void rekey(key, new_key, key_size), for key_size up to
\* TC_SHA256_BLOCK_SIZE: the first loop writes key[i] and key[i + 64] for
\* i < key_size from new_key[i], the second writes the pads at the other
\* indices.  new_key holds the key_size bytes the first loop reads.
rekey(key, new_key, key_size) ==
    [j \in 1..Len(key) |->
        LET i == (j - 1) % TC_SHA256_BLOCK_SIZE
        IN  IF j > 2 * TC_SHA256_BLOCK_SIZE THEN key[j]
            ELSE IF j <= TC_SHA256_BLOCK_SIZE
            THEN (IF i < key_size THEN XorInnerPad[new_key[i + 1]]
                  ELSE inner_pad)
            ELSE (IF i < key_size THEN XorOuterPad[new_key[i + 1]]
                  ELSE outer_pad)]

\* lines 85-89: the digest f.digest is written to
\* ctx->key[TC_SHA256_DIGEST_SIZE ...] and rekey reads it from there; the first
\* loop of rekey reads key[32..63] and writes key[0..31] and key[64..95] only
set_key_long_rekey(key, digest) ==
    rekey(_copy(key, TC_SHA256_DIGEST_SIZE, digest, TC_SHA256_DIGEST_SIZE),
          digest, TC_SHA256_DIGEST_SIZE)

set_key_long_finish(ctx, f) ==
    [key |-> set_key_long_rekey(ctx.key, f.digest), hash_state |-> f.s]

\* the else branch of tc_hmac_set_key: key_size > TC_SHA256_BLOCK_SIZE
set_key_long(ctx, key, key_size) ==
    set_key_long_finish(ctx,
        tc_sha256_final(tc_sha256_update(tc_sha256_init(ctx.hash_state),
                                         key, key_size)))

\* the then branch: the three dummy calls work on dummy_state and dummy_key,
\* locals of the function, and leave ctx->hash_state alone
set_key_short(ctx, key, key_size) ==
    [ctx EXCEPT !.key = rekey(ctx.key, key, key_size)]

\* a set_key whose short-key branch goes straight to rekey
set_key_calls_unequalized(key_size) ==
    IF key_size <= TC_SHA256_BLOCK_SIZE
    THEN << [fn |-> "rekey", key |-> "ctx->key", new_key |-> "key",
             key_size |-> key_size] >>
    ELSE << [fn |-> "tc_sha256_init", s |-> "ctx->hash_state"],
            [fn |-> "tc_sha256_update", s |-> "ctx->hash_state",
             data |-> "key", datalen |-> key_size],
            [fn |-> "tc_sha256_final", digest |-> "ctx->key[32]",
             s |-> "ctx->hash_state"],
            [fn |-> "rekey", key |-> "ctx->key", new_key |-> "ctx->key[32]",
             key_size |-> TC_SHA256_DIGEST_SIZE] >>

\* lines 65-90: the calls tc_hmac_set_key makes past its sanity check, in
\* order, each with the objects it is handed; dummy_state and dummy_key are
\* locals of the function
set_key_calls(key_size) ==
    IF key_size <= TC_SHA256_BLOCK_SIZE
    THEN << [fn |-> "tc_sha256_init", s |-> "dummy_state.hash_state"],
            [fn |-> "tc_sha256_update", s |-> "dummy_state.hash_state",
             data |-> "dummy_key", datalen |-> key_size],
            [fn |-> "tc_sha256_final", digest |-> "dummy_state.key[32]",
             s |-> "dummy_state.hash_state"],
            [fn |-> "rekey", key |-> "ctx->key", new_key |-> "key",
             key_size |-> key_size] >>
    ELSE << [fn |-> "tc_sha256_init", s |-> "ctx->hash_state"],
            [fn |-> "tc_sha256_update", s |-> "ctx->hash_state",
             data |-> "key", datalen |-> key_size],
            [fn |-> "tc_sha256_final", digest |-> "ctx->key[32]",
             s |-> "ctx->hash_state"],
            [fn |-> "rekey", key |-> "ctx->key", new_key |-> "ctx->key[32]",
             key_size |-> TC_SHA256_DIGEST_SIZE] >>

tc_hmac_set_key(ctx, key, key_size) ==
    IF ctx = NULL \/ key = NULL \/ key_size = 0
    THEN [rc |-> TC_CRYPTO_FAIL, ctx |-> ctx]
    ELSE [rc |-> TC_CRYPTO_SUCCESS,
          ctx |-> Ptr(IF key_size <= TC_SHA256_BLOCK_SIZE
                      THEN set_key_short(Deref(ctx), Deref(key), key_size)
                      ELSE set_key_long(Deref(ctx), Deref(key), key_size))]

\* an init that absorbs the second half of the schedule, key[64..127]
init_outer_half(ctx) ==
    IF ctx = NULL
    THEN [rc |-> TC_CRYPTO_FAIL, ctx |-> ctx]
    ELSE [rc |-> TC_CRYPTO_SUCCESS,
          ctx |-> Ptr([Deref(ctx) EXCEPT !.hash_state =
                      tc_sha256_update(tc_sha256_init(Deref(ctx).hash_state),
                                       SubSeq(Deref(ctx).key,
                                              TC_SHA256_BLOCK_SIZE + 1,
                                              2 * TC_SHA256_BLOCK_SIZE),
                                       TC_SHA256_BLOCK_SIZE)])]

tc_hmac_init(ctx) ==
    IF ctx = NULL
    THEN [rc |-> TC_CRYPTO_FAIL, ctx |-> ctx]
    ELSE [rc |-> TC_CRYPTO_SUCCESS,
          ctx |-> Ptr([Deref(ctx) EXCEPT !.hash_state =
                      tc_sha256_update(tc_sha256_init(Deref(ctx).hash_state),
                                       SubSeq(Deref(ctx).key, 1,
                                              TC_SHA256_BLOCK_SIZE),
                                       TC_SHA256_BLOCK_SIZE)])]

\* an update that restarts the hash before it absorbs data
update_restarting(ctx, data, data_length) ==
    IF ctx = NULL
    THEN [rc |-> TC_CRYPTO_FAIL, ctx |-> ctx]
    ELSE [rc |-> TC_CRYPTO_SUCCESS,
          ctx |-> Ptr([Deref(ctx) EXCEPT !.hash_state =
                      tc_sha256_update(tc_sha256_init(Deref(ctx).hash_state),
                                       data, data_length)])]

tc_hmac_update(ctx, data, data_length) ==
    IF ctx = NULL
    THEN [rc |-> TC_CRYPTO_FAIL, ctx |-> ctx]
    ELSE [rc |-> TC_CRYPTO_SUCCESS,
          ctx |-> Ptr([Deref(ctx) EXCEPT !.hash_state =
                      tc_sha256_update(Deref(ctx).hash_state, data,
                                       data_length)])]

\* lines 136-141: the outer hash over key[64..127] and the inner digest that
\* tag holds, written to tag; hash_state is the state the inner final left
hmac_final_outer(tag_, key, hash_state) ==
    _copy(tag_, 0,
          tc_sha256_final(
              tc_sha256_update(
                  tc_sha256_update(tc_sha256_init(hash_state),
                                   SubSeq(key, TC_SHA256_BLOCK_SIZE + 1,
                                          2 * TC_SHA256_BLOCK_SIZE),
                                   TC_SHA256_BLOCK_SIZE),
                  tag_, TC_SHA256_DIGEST_SIZE)).digest,
          TC_SHA256_DIGEST_SIZE)

\* lines 134-141, inner being what tc_sha256_final(tag, &ctx->hash_state) gives
hmac_final_tag(tag_, key, inner) ==
    hmac_final_outer(_copy(tag_, 0, inner.digest, TC_SHA256_DIGEST_SIZE),
                     key, inner.s)

\* a final that skips line 144: the schedule stays, the hash state is the one
\* the outer tc_sha256_final left
final_destroy_skipped(ctx) ==
    [ctx EXCEPT !.hash_state = tc_sha256_final(tc_sha256_init(@)).s]

\* line 144: _set(ctx, 0, sizeof(*ctx))
final_destroy(ctx) == ZeroHmacState

\* a final that looks at taglen only after the tag is written and the state
\* destroyed
final_late_check(tag_, taglen, ctx) ==
    IF tag_ = NULL \/ ctx = NULL
    THEN [rc |-> TC_CRYPTO_FAIL, tag |-> tag_, ctx |-> ctx]
    ELSE [rc |-> IF taglen # TC_SHA256_DIGEST_SIZE
                 THEN TC_CRYPTO_FAIL ELSE TC_CRYPTO_SUCCESS,
          tag |-> Ptr(hmac_final_tag(Deref(tag_), Deref(ctx).key,
                                     tc_sha256_final(Deref(ctx).hash_state))),
          ctx |-> Ptr(final_destroy(Deref(ctx)))]

\* the tag field of the result is the tag buffer after the call
tc_hmac_final(tag_, taglen, ctx) ==
    IF tag_ = NULL \/ taglen # TC_SHA256_DIGEST_SIZE \/ ctx = NULL
    THEN [rc |-> TC_CRYPTO_FAIL, tag |-> tag_, ctx |-> ctx]
    ELSE [rc |-> TC_CRYPTO_SUCCESS,
          tag |-> Ptr(hmac_final_tag(Deref(tag_), Deref(ctx).key,
                                     tc_sha256_final(Deref(ctx).hash_state))),
          ctx |-> Ptr(final_destroy(Deref(ctx)))]

(***************************************************************************)
(* hmac_prng.c                                                             *)
(***************************************************************************)
MIN_SLEN == 32
MAX_SLEN == UINT32_MAX
MAX_PLEN == UINT32_MAX
MAX_ALEN == UINT32_MAX
MAX_GENS == UINT32_MAX
MAX_OUT == 524288

\* sizeof(prng->key) and sizeof(prng->v)
SizeofKey == TC_SHA256_DIGEST_SIZE
SizeofV == TC_SHA256_DIGEST_SIZE

\* if (data && datalen) tc_hmac_update(&prng->h, data, datalen)
update_absorb(ctx, data, datalen) ==
    IF data # NULL /\ datalen # 0
    THEN tc_hmac_update(ctx, Deref(data), datalen).ctx
    ELSE ctx

\* tc_hmac_final(prng->key, sizeof(prng->key), &prng->h) wrote f
update_key_store(prng_, f) ==
    [prng_ EXCEPT !.key = Deref(f.tag), !.h = Deref(f.ctx)]

\* lines 83-96 and 109-119: a new prng key from v, a separator, data and
\* additional_data, under the current prng key
update_key(prng_, separator, data, datalen, additional_data, additional_datalen) ==
    update_key_store(prng_,
        tc_hmac_final(Ptr(prng_.key), SizeofKey,
            update_absorb(
                update_absorb(
                    tc_hmac_update(
                        tc_hmac_update(
                            tc_hmac_init(
                                tc_hmac_set_key(Ptr(prng_.h), Ptr(prng_.key),
                                                SizeofKey).ctx).ctx,
                            prng_.v, SizeofV).ctx,
                        <<separator>>, 1).ctx,
                    data, datalen),
                additional_data, additional_datalen)))

\* tc_hmac_final(prng->v, sizeof(prng->v), &prng->h) wrote f
update_v_store(prng_, f) ==
    [prng_ EXCEPT !.v = Deref(f.tag), !.h = Deref(f.ctx)]

\* lines 98-104 and 121-127 (and 209-215 of generate): v <- HMAC(key, v)
update_v(prng_) ==
    update_v_store(prng_,
        tc_hmac_final(Ptr(prng_.v), SizeofV,
            tc_hmac_update(
                tc_hmac_init(
                    tc_hmac_set_key(Ptr(prng_.h), Ptr(prng_.key),
                                    SizeofKey).ctx).ctx,
                prng_.v, SizeofV).ctx))

\* an update that returns after its first pass whatever data is
update_rest_skipped(prng_, data, datalen, additional_data, additional_datalen) ==
    prng_

\* lines 106-127: the early return, or the second pass with separator 0x01
update_rest(prng_, data, datalen, additional_data, additional_datalen) ==
    IF data = NULL \/ datalen = 0
    THEN prng_
    ELSE update_v(update_key(prng_, 1, data, datalen, additional_data,
                             additional_datalen))

\* static void update(prng, data, datalen, additional_data, additional_datalen)
update(prng_, data, datalen, additional_data, additional_datalen) ==
    update_rest(update_v(update_key(prng_, 0, data, datalen, additional_data,
                                    additional_datalen)),
                data, datalen, additional_data, additional_datalen)

\* lines 135-140: what the sanity check of tc_hmac_prng_init returns
prng_init_check(prng_, personalization, plen) ==
    IF prng_ = NULL \/ personalization = NULL \/ U32Gt(U32(plen), MAX_PLEN)
    THEN TC_CRYPTO_FAIL
    ELSE TC_CRYPTO_SUCCESS

\* an init that skips lines 143-144 and derives the state from what was there
init_known_state_skipped(prng_) == prng_

\* lines 143-144: put the generator into a known state
init_known_state(prng_) ==
    [prng_ EXCEPT !.key = _set(0, SizeofKey), !.v = _set(1, SizeofV)]

\* an init that skips line 149 and leaves countdown as it found it
init_countdown_skipped(prng_) == prng_

\* line 149: force a reseed before generate may succeed
init_countdown(prng_) == [prng_ EXCEPT !.countdown = U32(0)]

tc_hmac_prng_init(prng_, personalization, plen) ==
    IF prng_init_check(prng_, personalization, plen) = TC_CRYPTO_FAIL
    THEN [rc |-> TC_CRYPTO_FAIL, prng |-> prng_]
    ELSE [rc |-> TC_CRYPTO_SUCCESS,
          prng |-> Ptr(init_countdown(
                           update(init_known_state(Deref(prng_)),
                                  personalization, plen, NULL, 0)))]

\* lines 161-177: what the sanity checks of tc_hmac_prng_reseed return
prng_reseed_check(prng_, seed, seedlen, additional_input, additionallen) ==
    IF prng_ = NULL \/ seed = NULL \/ seedlen < MIN_SLEN
       \/ U32Gt(U32(seedlen), MAX_SLEN)
    THEN TC_CRYPTO_FAIL
    ELSE IF additional_input # NULL
            /\ (additionallen = 0 \/ U32Gt(U32(additionallen), MAX_ALEN))
    THEN TC_CRYPTO_FAIL
    ELSE TC_CRYPTO_SUCCESS

\* a reseed that skips line 187 and leaves countdown as it found it
reseed_countdown_skipped(prng_) == prng_

\* line 187: enable tc_hmac_prng_generate
reseed_countdown(prng_) == [prng_ EXCEPT !.countdown = MAX_GENS]

\* lines 169-184: the update over the seed, with or without additional_input
reseed_update(prng_, seed, seedlen, additional_input, additionallen) ==
    IF additional_input # NULL
    THEN update(prng_, seed, seedlen, additional_input, additionallen)
    ELSE update(prng_, seed, seedlen, NULL, 0)

\* a reseed that checks additional_input only after update has run on the seed
reseed_late_check(prng_, seed, seedlen, additional_input, additionallen) ==
    IF prng_ = NULL \/ seed = NULL \/ seedlen < MIN_SLEN
    THEN [rc |-> TC_CRYPTO_FAIL, prng |-> prng_]
    ELSE IF additional_input # NULL /\ additionallen = 0
    THEN [rc |-> TC_CRYPTO_FAIL,
          prng |-> Ptr(update(Deref(prng_), seed, seedlen, NULL, 0))]
    ELSE [rc |-> TC_CRYPTO_SUCCESS,
          prng |-> Ptr(reseed_countdown(
                           reseed_update(Deref(prng_), seed, seedlen,
                                         additional_input, additionallen)))]

tc_hmac_prng_reseed(prng_, seed, seedlen, additional_input, additionallen) ==
    IF prng_reseed_check(prng_, seed, seedlen, additional_input,
                         additionallen) = TC_CRYPTO_FAIL
    THEN [rc |-> TC_CRYPTO_FAIL, prng |-> prng_]
    ELSE [rc |-> TC_CRYPTO_SUCCESS,
          prng |-> Ptr(reseed_countdown(
                           reseed_update(Deref(prng_), seed, seedlen,
                                         additional_input, additionallen)))]

RECURSIVE generate_loop(_, _, _, _)
\* lines 217-223, prng_ being the state after lines 210-215
generate_copy(prng_, out_, pos, outlen, bufferlen) ==
    generate_loop(prng_, _copy(out_, pos, prng_.v, bufferlen),
                  pos + bufferlen,
                  IF outlen > TC_SHA256_DIGEST_SIZE
                  THEN outlen - TC_SHA256_DIGEST_SIZE ELSE 0)

\* a loop that copies a whole block of v at every turn
generate_loop_whole_blocks(prng_, out_, pos, outlen) ==
    IF outlen = 0 THEN [prng |-> prng_, out |-> out_]
    ELSE generate_copy(update_v(prng_), out_, pos, outlen,
                       TC_SHA256_DIGEST_SIZE)

\* the while loop of tc_hmac_prng_generate; pos is how far out has advanced
generate_loop(prng_, out_, pos, outlen) ==
    IF outlen = 0 THEN [prng |-> prng_, out |-> out_]
    ELSE generate_copy(update_v(prng_), out_, pos, outlen,
                       IF TC_SHA256_DIGEST_SIZE > outlen
                       THEN outlen ELSE TC_SHA256_DIGEST_SIZE)

\* a generate that returns without the update of line 227
generate_finish_without_update(l) ==
    [rc |-> TC_CRYPTO_SUCCESS, out |-> Ptr(l.out), prng |-> Ptr(l.prng)]

\* lines 226-229, l being the state and the buffer the loop left
generate_finish(l) ==
    [rc |-> TC_CRYPTO_SUCCESS, out |-> Ptr(l.out),
     prng |-> Ptr(update(l.prng, NULL, 0, NULL, 0))]

\* a check that rejects outlen = MAX_OUT as well
generate_check_strict(out_, outlen, prng_) ==
    IF out_ = NULL \/ prng_ = NULL \/ outlen = 0 \/ outlen >= MAX_OUT
    THEN TC_CRYPTO_FAIL
    ELSE IF Deref(prng_).countdown = U32(0)
    THEN TC_HMAC_PRNG_RESEED_REQ
    ELSE TC_CRYPTO_SUCCESS

\* lines 196-204: what the checks at the head of tc_hmac_prng_generate return
prng_generate_check(out_, outlen, prng_) ==
    IF out_ = NULL \/ prng_ = NULL \/ outlen = 0 \/ outlen > MAX_OUT
    THEN TC_CRYPTO_FAIL
    ELSE IF Deref(prng_).countdown = U32(0)
    THEN TC_HMAC_PRNG_RESEED_REQ
    ELSE TC_CRYPTO_SUCCESS

\* a generate that skips line 206 and never counts down
generate_countdown_skipped(prng_) == prng_

\* line 206: prng->countdown--
generate_countdown(prng_) == [prng_ EXCEPT !.countdown = U32Dec(@)]

\* a generate that counts down before it looks at countdown
generate_early_countdown(out_, outlen, prng_) ==
    IF out_ = NULL \/ prng_ = NULL \/ outlen = 0 \/ outlen > MAX_OUT
    THEN [rc |-> TC_CRYPTO_FAIL, out |-> out_, prng |-> prng_]
    ELSE IF Deref(prng_).countdown = U32(0)
    THEN [rc |-> TC_HMAC_PRNG_RESEED_REQ, out |-> out_,
          prng |-> Ptr(generate_countdown(Deref(prng_)))]
    ELSE generate_finish(
             generate_loop(generate_countdown(Deref(prng_)),
                           Deref(out_), 0, outlen))

tc_hmac_prng_generate(out_, outlen, prng_) ==
    IF prng_generate_check(out_, outlen, prng_) # TC_CRYPTO_SUCCESS
    THEN [rc |-> prng_generate_check(out_, outlen, prng_),
          out |-> out_, prng |-> prng_]
    ELSE generate_finish(
             generate_loop(generate_countdown(Deref(prng_)),
                           Deref(out_), 0, outlen))

(***************************************************************************)
(* The HMAC calls inside the DRBG operations, one by one.  A call names    *)
(* the function and what the source passes it; running the calls of an     *)
(* operation on a DRBG state gives the state they leave and, per call, the *)
(* return code (which the source discards), the prng key and the key       *)
(* schedule of prng->h at the time of the call.                            *)
(***************************************************************************)
\* tc_hmac_set_key(&prng->h, prng->key, sizeof(prng->key))
call_set_key == [fn |-> "tc_hmac_set_key", key_size |-> SizeofKey]
\* tc_hmac_init(&prng->h)
call_init == [fn |-> "tc_hmac_init"]
\* tc_hmac_update(&prng->h, prng->v, sizeof(prng->v))
call_update_v == [fn |-> "tc_hmac_update", from |-> "prng->v", len |-> SizeofV]
\* tc_hmac_update(&prng->h, data, datalen) over bytes of the caller
call_update(data, datalen) ==
    [fn |-> "tc_hmac_update", from |-> "arg", data |-> data, len |-> datalen]
\* tc_hmac_final(prng->key, sizeof(prng->key), &prng->h)
call_final_key == [fn |-> "tc_hmac_final", to |-> "prng->key", taglen |-> SizeofKey]
\* tc_hmac_final(prng->v, sizeof(prng->v), &prng->h)
call_final_v == [fn |-> "tc_hmac_final", to |-> "prng->v", taglen |-> SizeofV]

\* if (p && len) tc_hmac_update(&prng->h, p, len)
calls_if_present(p, len) ==
    IF p # NULL /\ len # 0 THEN << call_update(Deref(p), len) >> ELSE << >>

\* an update that keeps the schedule over the final that wrote the new key
v_calls_without_set_key == << call_init, call_update_v, call_final_v >>

\* lines 98-104 (and 121-127, 209-215): the calls that renew v
v_calls == << call_set_key, call_init, call_update_v, call_final_v >>

\* an update that asks final for sizeof(prng->h.key) bytes of key
key_calls_long_tag(separator, data, datalen, additional_data, additional_datalen) ==
    << call_set_key, call_init, call_update_v, call_update(<<separator>>, 1) >>
    \o calls_if_present(data, datalen)
    \o calls_if_present(additional_data, additional_datalen)
    \o << [call_final_key EXCEPT !.taglen = 2 * TC_SHA256_BLOCK_SIZE] >>

\* lines 83-96 (and 109-119): the calls that renew the key
key_calls(separator, data, datalen, additional_data, additional_datalen) ==
    << call_set_key, call_init, call_update_v, call_update(<<separator>>, 1) >>
    \o calls_if_present(data, datalen)
    \o calls_if_present(additional_data, additional_datalen)
    \o << call_final_key >>

\* lines 83-127: the calls of update
update_calls(data, datalen, additional_data, additional_datalen) ==
    key_calls(0, data, datalen, additional_data, additional_datalen)
    \o v_calls
    \o (IF data = NULL \/ datalen = 0 THEN << >>
        ELSE key_calls(1, data, datalen, additional_data, additional_datalen)
             \o v_calls)

RECURSIVE generate_calls(_)
\* lines 208-227: the calls of the loop, turn by turn, and of the update
generate_calls(outlen) ==
    IF outlen = 0 THEN update_calls(NULL, 0, NULL, 0)
    ELSE v_calls \o generate_calls(IF outlen > TC_SHA256_DIGEST_SIZE
                                   THEN outlen - TC_SHA256_DIGEST_SIZE ELSE 0)

\* the calls of a DRBG operation that passed its sanity checks
drbg_calls(op, a) ==
    CASE op = "init" -> update_calls(a.personalization, a.plen, NULL, 0)
      [] op = "reseed" ->
            IF a.additional_input # NULL
            THEN update_calls(a.seed, a.seedlen, a.additional_input,
                              a.additionallen)
            ELSE update_calls(a.seed, a.seedlen, NULL, 0)
      [] OTHER -> generate_calls(a.outlen)

\* the state the calls of op start from: lines 143-144, line 206
drbg_start(op, p) ==
    CASE op = "init" -> init_known_state(p)
      [] op = "generate" -> generate_countdown(p)
      [] OTHER -> p

\* the state the operation leaves once its calls have left p: lines 149, 187
drbg_end(op, p) ==
    CASE op = "init" -> init_countdown(p)
      [] op = "reseed" -> reseed_countdown(p)
      [] OTHER -> p

\* the record of call c, made on state p with result r
call_record(p, c, r) ==
    [fn |-> c.fn, rc |-> r.rc, key |-> p.key, sched |-> p.h.key,
     size |-> IF c.fn = "tc_hmac_set_key" THEN c.key_size
              ELSE IF c.fn = "tc_hmac_final" THEN c.taglen ELSE 0]

\* what a call other than final leaves: r.ctx in prng->h
step_ctx(st, c, r) ==
    [prng |-> [st.prng EXCEPT !.h = Deref(r.ctx)],
     log |-> Append(st.log, call_record(st.prng, c, r))]

\* what tc_hmac_final leaves: r.tag in prng->key or prng->v, r.ctx in prng->h
step_final(st, c, r) ==
    [prng |-> IF c.to = "prng->key"
              THEN [st.prng EXCEPT !.key = Deref(r.tag), !.h = Deref(r.ctx)]
              ELSE [st.prng EXCEPT !.v = Deref(r.tag), !.h = Deref(r.ctx)],
     log |-> Append(st.log, call_record(st.prng, c, r))]

\* the call c made on st.prng
hmac_step(st, c) ==
    CASE c.fn = "tc_hmac_set_key" ->
            step_ctx(st, c, tc_hmac_set_key(Ptr(st.prng.h), Ptr(st.prng.key),
                                            c.key_size))
      [] c.fn = "tc_hmac_init" ->
            step_ctx(st, c, tc_hmac_init(Ptr(st.prng.h)))
      [] c.fn = "tc_hmac_update" ->
            step_ctx(st, c, tc_hmac_update(Ptr(st.prng.h),
                                           IF c.from = "prng->v"
                                           THEN st.prng.v ELSE c.data,
                                           c.len))
      [] OTHER ->
            step_final(st, c, tc_hmac_final(Ptr(IF c.to = "prng->key"
                                                THEN st.prng.key
                                                ELSE st.prng.v),
                                            c.taglen, Ptr(st.prng.h)))

RECURSIVE hmac_steps(_, _, _)
\* the calls cs from the i-th on, made in order
hmac_steps(st, cs, i) ==
    IF i > Len(cs) THEN st ELSE hmac_steps(hmac_step(st, cs[i]), cs, i + 1)

\* the calls of operation op with arguments a on the state p
drbg_run(op, a, p) ==
    hmac_steps([prng |-> drbg_start(op, p), log |-> << >>],
               drbg_calls(op, a), 1)

(***************************************************************************)
(* The callers of the DRBG.  Storage is caller-provided: before the first  *)
(* call a struct and a buffer hold whatever the memory held.               *)
(***************************************************************************)
PriorPrng ==
    << [h |-> ZeroHmacState, key |-> _set(0, SizeofKey),
        v |-> _set(0, SizeofV), countdown |-> U32(0)],
       [h |-> [key |-> _set(165, 2 * TC_SHA256_BLOCK_SIZE),
               hash_state |-> [base |-> "spent", msg |-> <<1, 2, 3>>]],
        key |-> _set(17, SizeofKey), v |-> _set(34, SizeofV),
        countdown |-> U32(1)],
       [h |-> ZeroHmacState, key |-> _set(51, SizeofKey),
        v |-> _set(68, SizeofV), countdown |-> U32(2)],
       [h |-> [key |-> _set(90, 2 * TC_SHA256_BLOCK_SIZE),
               hash_state |-> [base |-> "iv", msg |-> <<4>>]],
        key |-> _set(85, SizeofKey), v |-> _set(102, SizeofV),
        countdown |-> UINT32_MAX] >>

PriorOut == _set(255, OutCap)
PriorTwinOut == _set(0, OutCap)

Seed32 == [i \in 1..32 |-> i - 1]
Seed33 == [i \in 1..33 |-> 200 + i]

\* arguments of tc_hmac_prng_init; prng is FALSE for a null state pointer
InitArgs ==
    { [prng |-> TRUE, personalization |-> Ptr(<<0>>), plen |-> 1],
      [prng |-> TRUE, personalization |-> Ptr(<<0>>), plen |-> 0],
      [prng |-> TRUE, personalization |-> Ptr(<<7, 8>>), plen |-> 2],
      [prng |-> TRUE, personalization |-> NULL, plen |-> 0],
      [prng |-> TRUE, personalization |-> NULL, plen |-> 1],
      [prng |-> FALSE, personalization |-> Ptr(<<0>>), plen |-> 1] }

\* arguments of tc_hmac_prng_reseed
ReseedArgs ==
    { [prng |-> TRUE, seed |-> Ptr(Seed32), seedlen |-> 32,
       additional_input |-> NULL, additionallen |-> 0],
      [prng |-> TRUE, seed |-> Ptr(Seed32), seedlen |-> 32,
       additional_input |-> Ptr(<<9>>), additionallen |-> 1],
      [prng |-> TRUE, seed |-> Ptr(Seed33), seedlen |-> 33,
       additional_input |-> NULL, additionallen |-> 1],
      [prng |-> TRUE, seed |-> Ptr(Seed33), seedlen |-> 31,
       additional_input |-> NULL, additionallen |-> 0],
      [prng |-> TRUE, seed |-> NULL, seedlen |-> 32,
       additional_input |-> NULL, additionallen |-> 0],
      [prng |-> TRUE, seed |-> Ptr(Seed32), seedlen |-> 32,
       additional_input |-> Ptr(<<9>>), additionallen |-> 0],
      [prng |-> FALSE, seed |-> Ptr(Seed32), seedlen |-> 32,
       additional_input |-> NULL, additionallen |-> 0] }

\* arguments of tc_hmac_prng_generate; out is FALSE for a null buffer pointer
GenerateArgs ==
    { [prng |-> TRUE, out |-> TRUE, outlen |-> n] :
        n \in {0, 1, 32, 33, 65, MAX_OUT, MAX_OUT + 1} }
    \cup { [prng |-> FALSE, out |-> TRUE, outlen |-> 1],
           [prng |-> TRUE, out |-> FALSE, outlen |-> 1],
           [prng |-> FALSE, out |-> FALSE, outlen |-> 33] }

\* History of the calls on prng: the position in the state machine of the
\* specification (phase), the successful generates since the last successful
\* init or reseed (gens), whether an init ever succeeded (init), whether a
\* reseed ever succeeded (seeded) and whether a generate ever returned
\* TC_HMAC_PRNG_RESEED_REQ (refused).
NoHist ==
    [phase |-> "unborn", gens |-> 0, init |-> FALSE, seeded |-> FALSE,
     refused |-> FALSE]

HistAfter(h, op, rc) ==
    CASE rc = TC_CRYPTO_SUCCESS /\ op = "init" ->
            [h EXCEPT !.phase = "instantiated", !.gens = 0, !.init = TRUE]
      [] rc = TC_CRYPTO_SUCCESS /\ op = "reseed" ->
            [h EXCEPT !.phase = "seeded", !.gens = 0, !.seeded = TRUE]
      [] rc = TC_CRYPTO_SUCCESS /\ op = "generate" ->
            [h EXCEPT !.phase = IF @ = "seeded" THEN "used" ELSE @,
                      !.gens = @ + 1]
      [] rc = TC_HMAC_PRNG_RESEED_REQ -> [h EXCEPT !.refused = TRUE]
      [] OTHER -> h

Snapshot == [prng |-> prng, out |-> out, hist |-> hist]

\* what a DRBG call that returned r does to the caller's variables
PrngEffect(op, a, r) ==
    /\ steps < MaxSteps
    /\ steps' = steps + 1
    /\ prng' = IF a.prng THEN Deref(r.prng) ELSE prng
    /\ out' = IF op = "generate" /\ a.out THEN Deref(r.out) ELSE out
    /\ call' = [op |-> op, args |-> a, rc |-> r.rc]
    /\ pre' = Snapshot
    /\ hist' = HistAfter(hist, op, r.rc)

\* the same call made on twin and twinOut
TwinEffect(op, a, r) ==
    /\ twin' = IF a.prng THEN Deref(r.prng) ELSE twin
    /\ twinOut' = IF op = "generate" /\ a.out THEN Deref(r.out) ELSE twinOut
    /\ twinCall' = [op |-> op, args |-> a, rc |-> r.rc]
    /\ solo' = solo

\* a call of tc_hmac_prng_init on the state p
PrngInitCall(a, p) ==
    tc_hmac_prng_init(IF a.prng THEN Ptr(p) ELSE NULL,
                      a.personalization, a.plen)

\* a call of tc_hmac_prng_reseed on the state p
PrngReseedCall(a, p) ==
    tc_hmac_prng_reseed(IF a.prng THEN Ptr(p) ELSE NULL, a.seed, a.seedlen,
                        a.additional_input, a.additionallen)

\* a call of tc_hmac_prng_generate on the state p and the buffer o
PrngGenerateCall(a, p, o) ==
    tc_hmac_prng_generate(IF a.out THEN Ptr(o) ELSE NULL, a.outlen,
                          IF a.prng THEN Ptr(p) ELSE NULL)

\* A caller passes outlen beyond its buffer only where generate writes nothing.
GenerateFits(a, p, o) ==
    \/ a.outlen <= OutCap
    \/ prng_generate_check(IF a.out THEN Ptr(o) ELSE NULL, a.outlen,
                           IF a.prng THEN Ptr(p) ELSE NULL) # TC_CRYPTO_SUCCESS

NoCall == [op |-> "none", args |-> <<>>, rc |-> "none"]

InitPrng ==
    /\ prng \in { PriorPrng[i] : i \in DOMAIN PriorPrng }
    /\ out = PriorOut
    /\ call = NoCall
    /\ pre = [prng |-> prng, out |-> out, hist |-> NoHist]
    /\ hist = NoHist
    /\ steps = 0

\* the states alone are not followed
NoSolo == <<>>

InitTwinIdle ==
    /\ twin = PriorPrng[1]
    /\ twinOut = PriorTwinOut
    /\ twinCall = NoCall
    /\ solo = NoSolo

\* twin starts from other memory contents than prng
InitTwin ==
    /\ \E i \in DOMAIN PriorPrng :
          /\ prng = PriorPrng[i]
          /\ twin = PriorPrng[(i % Len(PriorPrng)) + 1]
    /\ twinOut = PriorTwinOut
    /\ twinCall = NoCall
    /\ solo = NoSolo

(***************************************************************************)
(* The callers of HMAC.                                                    *)
(***************************************************************************)
\* successful HMAC calls in one behaviour
MaxHmacSteps == 5

PriorHmac ==
    { ZeroHmacState,
      [key |-> _set(119, 2 * TC_SHA256_BLOCK_SIZE),
       hash_state |-> [base |-> "spent", msg |-> <<5, 6>>]] }

PriorTag == _set(170, TC_SHA256_DIGEST_SIZE)

Key4 == <<74, 101, 102, 101>>
Key64 == [i \in 1..64 |-> i]
Key65 == [i \in 1..65 |-> 255 - i]

\* arguments of tc_hmac_set_key; ctx is FALSE for a null state pointer
SetKeyArgs ==
    { [ctx |-> TRUE, key |-> Ptr(Key4), key_size |-> 4],
      [ctx |-> TRUE, key |-> Ptr(Key64), key_size |-> 64],
      [ctx |-> TRUE, key |-> Ptr(Key65), key_size |-> 65],
      [ctx |-> TRUE, key |-> Ptr(Key4), key_size |-> 0],
      [ctx |-> TRUE, key |-> NULL, key_size |-> 4],
      [ctx |-> FALSE, key |-> Ptr(Key4), key_size |-> 4] }

HmacInitArgs == { [ctx |-> TRUE], [ctx |-> FALSE] }

UpdateArgs ==
    { [ctx |-> TRUE, data |-> <<>>, data_length |-> 0],
      [ctx |-> TRUE, data |-> <<7>>, data_length |-> 1],
      [ctx |-> TRUE, data |-> <<8, 9>>, data_length |-> 2],
      [ctx |-> FALSE, data |-> <<7>>, data_length |-> 1] }

\* tag is FALSE for a null tag pointer
FinalArgs ==
    { [tag |-> TRUE, taglen |-> TC_SHA256_DIGEST_SIZE, ctx |-> TRUE],
      [tag |-> TRUE, taglen |-> TC_SHA256_DIGEST_SIZE - 1, ctx |-> TRUE],
      [tag |-> TRUE, taglen |-> TC_SHA256_DIGEST_SIZE + 1, ctx |-> TRUE],
      [tag |-> FALSE, taglen |-> TC_SHA256_DIGEST_SIZE, ctx |-> TRUE],
      [tag |-> TRUE, taglen |-> TC_SHA256_DIGEST_SIZE, ctx |-> FALSE] }

\* History of the calls on hm: the key of the last successful set_key since
\* the last successful final (key); the key and the chunks of the MAC that a
\* successful init under that key started (run); and, since the last
\* successful final, "zero" while no set_key, init or update of non-zero
\* length succeeded, "updated" once such an update but no set_key or init did
\* (wiped).
NoHmacHist == [key |-> NULL, run |-> NULL, wiped |-> "no"]

HmacHistAfter(h, op, a, rc) ==
    CASE rc # TC_CRYPTO_SUCCESS -> h
      [] op = "set_key" ->
            [key |-> Ptr(SubSeq(Deref(a.key), 1, a.key_size)), run |-> NULL,
             wiped |-> "no"]
      [] op = "init" ->
            [h EXCEPT !.run = IF h.key = NULL THEN NULL
                              ELSE Ptr([key |-> Deref(h.key), chunks |-> <<>>]),
                      !.wiped = "no"]
      [] op = "update" ->
            [h EXCEPT !.run = IF @ = NULL THEN NULL
                              ELSE Ptr([Deref(@) EXCEPT !.chunks =
                                   Append(@, SubSeq(a.data, 1, a.data_length))]),
                      !.wiped = IF @ = "zero" /\ a.data_length > 0
                                THEN "updated" ELSE @]
      [] OTHER -> [key |-> NULL, run |-> NULL, wiped |-> "zero"]

HmacSnapshot == [hm |-> hm, tag |-> tag, hhist |-> hhist]

\* what an HMAC call that returned r does to the caller's variables
HmacEffect(op, a, r) ==
    /\ steps < MaxHmacSteps \/ r.rc # TC_CRYPTO_SUCCESS
    /\ steps' = IF r.rc = TC_CRYPTO_SUCCESS THEN steps + 1 ELSE steps
    /\ hm' = IF a.ctx THEN Deref(r.ctx) ELSE hm
    /\ tag' = IF op = "final" /\ a.tag THEN Deref(r.tag) ELSE tag
    /\ hcall' = [op |-> op, args |-> a, rc |-> r.rc]
    /\ hpre' = HmacSnapshot
    /\ hhist' = HmacHistAfter(hhist, op, a, r.rc)

InitHmacIdle ==
    /\ hm = ZeroHmacState
    /\ tag = PriorTag
    /\ hcall = NoCall
    /\ hpre = [hm |-> hm, tag |-> tag, hhist |-> NoHmacHist]
    /\ hhist = NoHmacHist

InitHmac ==
    /\ hm \in PriorHmac
    /\ tag = PriorTag
    /\ hcall = NoCall
    /\ hpre = [hm |-> hm, tag |-> tag, hhist |-> NoHmacHist]
    /\ hhist = NoHmacHist

InitPrngIdle ==
    /\ prng = PriorPrng[1]
    /\ out = PriorOut
    /\ call = NoCall
    /\ pre = [prng |-> prng, out |-> out, hist |-> NoHist]
    /\ hist = NoHist
    /\ steps = 0

(***************************************************************************)
(* Spec: a caller of the DRBG on one state.                                *)
(***************************************************************************)
Init == InitPrng /\ InitTwinIdle /\ InitHmacIdle

Instantiate ==
    \E a \in InitArgs :
        /\ PrngEffect("init", a, PrngInitCall(a, prng))
        /\ UNCHANGED twinVars /\ UNCHANGED hmacVars

Reseed ==
    \E a \in ReseedArgs :
        /\ PrngEffect("reseed", a, PrngReseedCall(a, prng))
        /\ UNCHANGED twinVars /\ UNCHANGED hmacVars

Generate ==
    \E a \in GenerateArgs :
        /\ GenerateFits(a, prng, out)
        /\ PrngEffect("generate", a, PrngGenerateCall(a, prng, out))
        /\ UNCHANGED twinVars /\ UNCHANGED hmacVars

Next == Instantiate \/ Reseed \/ Generate

Spec == Init /\ [][Next]_vars

(***************************************************************************)
(* SpecTwin: two DRBG states with different prior contents are driven by   *)
(* the same calls with the same arguments.                                 *)
(***************************************************************************)
TwinInit == InitPrng /\ InitTwin /\ InitHmacIdle

BothInstantiate ==
    \E a \in InitArgs :
        /\ PrngEffect("init", a, PrngInitCall(a, prng))
        /\ TwinEffect("init", a, PrngInitCall(a, twin))
        /\ UNCHANGED hmacVars

BothReseed ==
    \E a \in ReseedArgs :
        /\ PrngEffect("reseed", a, PrngReseedCall(a, prng))
        /\ TwinEffect("reseed", a, PrngReseedCall(a, twin))
        /\ UNCHANGED hmacVars

BothGenerate ==
    \E a \in GenerateArgs :
        /\ GenerateFits(a, prng, out)
        /\ GenerateFits(a, twin, twinOut)
        /\ PrngEffect("generate", a, PrngGenerateCall(a, prng, out))
        /\ TwinEffect("generate", a, PrngGenerateCall(a, twin, twinOut))
        /\ UNCHANGED hmacVars

TwinNext == BothInstantiate \/ BothReseed \/ BothGenerate

SpecTwin == TwinInit /\ [][TwinNext]_vars

(***************************************************************************)
(* SpecHmac: a caller of HMAC on one state.                                *)
(***************************************************************************)
HmacInit == InitPrngIdle /\ InitTwinIdle /\ InitHmac

SetKey ==
    \E a \in SetKeyArgs :
        /\ HmacEffect("set_key", a,
                      tc_hmac_set_key(IF a.ctx THEN Ptr(hm) ELSE NULL, a.key,
                                      a.key_size))
        /\ UNCHANGED prngVars /\ UNCHANGED twinVars

MacInit ==
    \E a \in HmacInitArgs :
        /\ HmacEffect("init", a, tc_hmac_init(IF a.ctx THEN Ptr(hm) ELSE NULL))
        /\ UNCHANGED prngVars /\ UNCHANGED twinVars

MacUpdate ==
    \E a \in UpdateArgs :
        /\ HmacEffect("update", a,
                      tc_hmac_update(IF a.ctx THEN Ptr(hm) ELSE NULL, a.data,
                                     a.data_length))
        /\ UNCHANGED prngVars /\ UNCHANGED twinVars

MacFinal ==
    \E a \in FinalArgs :
        /\ HmacEffect("final", a,
                      tc_hmac_final(IF a.tag THEN Ptr(tag) ELSE NULL, a.taglen,
                                    IF a.ctx THEN Ptr(hm) ELSE NULL))
        /\ UNCHANGED prngVars /\ UNCHANGED twinVars

HmacNext == SetKey \/ MacInit \/ MacUpdate \/ MacFinal

SpecHmac == HmacInit /\ [][HmacNext]_vars

(***************************************************************************)
(* SpecPair: two callers, each with its own DRBG state and buffer, make    *)
(* their calls in any order.  solo follows each state under its own calls  *)
(* alone.                                                                  *)
(***************************************************************************)
PairOps == {"init", "reseed", "generate"}

PairArgs(op) ==
    CASE op = "init" ->
            { [prng |-> TRUE, personalization |-> Ptr(<<7, 8>>), plen |-> 2],
              [prng |-> TRUE, personalization |-> NULL, plen |-> 0] }
      [] op = "reseed" ->
            { [prng |-> TRUE, seed |-> Ptr(Seed32), seedlen |-> 32,
               additional_input |-> NULL, additionallen |-> 0],
              [prng |-> TRUE, seed |-> Ptr(Seed33), seedlen |-> 33,
               additional_input |-> Ptr(<<9>>), additionallen |-> 1] }
      [] OTHER ->
            { [prng |-> TRUE, out |-> TRUE, outlen |-> 1],
              [prng |-> TRUE, out |-> TRUE, outlen |-> 33],
              [prng |-> TRUE, out |-> FALSE, outlen |-> 1] }

\* a library that keeps v in one static buffer, which the caller of twin
\* left as twin.v
pair_call_static_v(op, a, p, o) ==
    CASE op = "init" -> PrngInitCall(a, [p EXCEPT !.v = twin.v])
      [] op = "reseed" -> PrngReseedCall(a, [p EXCEPT !.v = twin.v])
      [] OTHER -> PrngGenerateCall(a, [p EXCEPT !.v = twin.v], o)

\* a call of operation op: the functions are handed the caller's state p and
\* buffer o and the file holds no other mutable object (lines 42-73 are
\* constants)
PairCall(op, a, p, o) ==
    CASE op = "init" -> PrngInitCall(a, p)
      [] op = "reseed" -> PrngReseedCall(a, p)
      [] OTHER -> PrngGenerateCall(a, p, o)

\* the same on twin and twinOut, by the other caller
PairTwinEffect(op, a, r) ==
    /\ steps < MaxSteps
    /\ steps' = steps + 1
    /\ twin' = IF a.prng THEN Deref(r.prng) ELSE twin
    /\ twinOut' = IF op = "generate" /\ a.out THEN Deref(r.out) ELSE twinOut
    /\ twinCall' = [op |-> op, args |-> a, rc |-> r.rc]

\* operation op run on a state and a buffer that no other caller exists for
SoloCall(op, a, p, o) ==
    CASE op = "init" ->
            tc_hmac_prng_init(IF a.prng THEN Ptr(p) ELSE NULL,
                              a.personalization, a.plen)
      [] op = "reseed" ->
            tc_hmac_prng_reseed(IF a.prng THEN Ptr(p) ELSE NULL, a.seed,
                                a.seedlen, a.additional_input, a.additionallen)
      [] OTHER ->
            tc_hmac_prng_generate(IF a.out THEN Ptr(o) ELSE NULL, a.outlen,
                                  IF a.prng THEN Ptr(p) ELSE NULL)

\* the state, the buffer and the return code after a solo call that gave r
SoloAfter(op, a, r, old) ==
    [prng |-> IF a.prng THEN Deref(r.prng) ELSE old.prng,
     out |-> IF op = "generate" /\ a.out THEN Deref(r.out) ELSE old.out,
     rc |-> r.rc]

PairInit ==
    /\ InitPrng
    /\ \E i \in DOMAIN PriorPrng :
          /\ prng = PriorPrng[i]
          /\ twin = PriorPrng[(i % Len(PriorPrng)) + 1]
    /\ twinOut = PriorTwinOut
    /\ twinCall = NoCall
    /\ solo = [a |-> [prng |-> prng, out |-> out, rc |-> "none"],
               b |-> [prng |-> twin, out |-> twinOut, rc |-> "none"],
               who |-> "none"]
    /\ InitHmacIdle

OnPrng ==
    \E op \in PairOps : \E a \in PairArgs(op) :
        /\ PrngEffect(op, a, PairCall(op, a, prng, out))
        /\ solo' = [a |-> SoloAfter(op, a, SoloCall(op, a, solo.a.prng,
                                                    solo.a.out), solo.a),
                    b |-> solo.b, who |-> "a"]
        /\ UNCHANGED <<twin, twinOut, twinCall>> /\ UNCHANGED hmacVars

OnTwin ==
    \E op \in PairOps : \E a \in PairArgs(op) :
        /\ PairTwinEffect(op, a, PairCall(op, a, twin, twinOut))
        /\ solo' = [a |-> solo.a,
                    b |-> SoloAfter(op, a, SoloCall(op, a, solo.b.prng,
                                                    solo.b.out), solo.b),
                    who |-> "b"]
        /\ UNCHANGED prngVars /\ UNCHANGED hmacVars

PairNext == OnPrng \/ OnTwin

SpecPair == PairInit /\ [][PairNext]_vars

(***************************************************************************)
(* Properties of the DRBG, over the last call (call), the state before it  *)
(* (pre) and the state after it.                                           *)
(***************************************************************************)
\* the arguments a of a generate call pass its sanity check
GenerateArgsValid(a) ==
    a.out /\ a.prng /\ a.outlen >= 1 /\ a.outlen <= 524288

\* b is a - 1 as 32-bit values, and a is not 0
U32IsPred(b, a) ==
    \/ a[2] > 0 /\ b = <<a[1], a[2] - 1>>
    \/ a[2] = 0 /\ a[1] > 0 /\ b = <<a[1] - 1, 65535>>

\* C1: after a successful tc_hmac_prng_init, from any prior state (also one
\* that had been reseeded), countdown is 0, and until a reseed succeeds every
\* tc_hmac_prng_generate with valid arguments returns RESEED_REQUIRED and
\* writes no byte to the output buffer.
InitForcesReseed ==
    /\ (call.op = "init" /\ call.rc = TC_CRYPTO_SUCCESS)
          => prng.countdown = <<0, 0>>
    /\ hist.phase = "instantiated" => prng.countdown = <<0, 0>>
    /\ (/\ call.op = "generate"
        /\ GenerateArgsValid(call.args)
        /\ pre.hist.phase = "instantiated")
          => call.rc = TC_HMAC_PRNG_RESEED_REQ /\ out = pre.out

\* a generate with valid arguments was refused after an init that followed a
\* successful reseed
InitForcesReseedWitness ==
    /\ call.op = "generate"
    /\ GenerateArgsValid(call.args)
    /\ pre.hist.phase = "instantiated"
    /\ pre.hist.seeded
    /\ call.rc = TC_HMAC_PRNG_RESEED_REQ

\* C2: after every successful tc_hmac_prng_reseed, whatever countdown was
\* before, countdown is MAX_GENS = 2^32 - 1, and the next generate with valid
\* arguments returns SUCCESS.
ReseedEnablesGenerate ==
    /\ (call.op = "reseed" /\ call.rc = TC_CRYPTO_SUCCESS)
          => prng.countdown = <<65535, 65535>>
    /\ (/\ call.op = "generate"
        /\ GenerateArgsValid(call.args)
        /\ pre.hist.phase = "seeded")
          => call.rc = TC_CRYPTO_SUCCESS

\* the first generate after a reseed succeeded and left 2^32 - 2
ReseedEnablesGenerateWitness ==
    /\ call.op = "generate"
    /\ pre.hist.phase = "seeded"
    /\ call.rc = TC_CRYPTO_SUCCESS
    /\ prng.countdown = <<65535, 65534>>

\* C3: a successful generate decrements countdown by exactly 1 and a countdown
\* of 0 is never decremented; after a reseed countdown is MAX_GENS less the
\* successful generates since, so that the generate after the MAX_GENS-th is
\* refused; from countdown = 1 a generate succeeds and the next is refused.
GenerateCountsDown ==
    /\ (call.op = "generate" /\ call.rc = TC_CRYPTO_SUCCESS)
          => U32IsPred(prng.countdown, pre.prng.countdown)
    /\ (call.op = "generate" /\ pre.prng.countdown = <<0, 0>>)
          => prng.countdown = <<0, 0>> /\ call.rc # TC_CRYPTO_SUCCESS
    /\ hist.phase \in {"seeded", "used"}
          => prng.countdown = <<65535, 65535 - hist.gens>>
    /\ (/\ call.op = "generate"
        /\ GenerateArgsValid(call.args)
        /\ pre.prng.countdown = <<0, 1>>)
          => call.rc = TC_CRYPTO_SUCCESS /\ prng.countdown = <<0, 0>>
    /\ (/\ call.op = "generate"
        /\ GenerateArgsValid(call.args)
        /\ pre.prng.countdown = <<0, 0>>)
          => call.rc = TC_HMAC_PRNG_RESEED_REQ

\* generate(1) was refused on a state whose countdown one successful generate
\* had taken from 1 to 0
GenerateCountsDownWitness ==
    /\ call.op = "generate"
    /\ call.args.outlen = 1
    /\ call.rc = TC_HMAC_PRNG_RESEED_REQ
    /\ hist.phase = "unborn"
    /\ hist.gens = 1

\* C4: a generate that returns RESEED_REQUIRED leaves key, v, countdown, the
\* embedded HMAC state and the output buffer unchanged, and after a following
\* successful reseed a generate with valid arguments succeeds.
RefusalKeepsState ==
    /\ (call.op = "generate" /\ call.rc = TC_HMAC_PRNG_RESEED_REQ)
          => prng = pre.prng /\ out = pre.out
    /\ (/\ call.op = "generate"
        /\ GenerateArgsValid(call.args)
        /\ pre.hist.refused
        /\ pre.hist.phase = "seeded")
          => call.rc = TC_CRYPTO_SUCCESS

\* refused, reseeded, and then served with new output bytes
RefusalKeepsStateWitness ==
    /\ call.op = "generate"
    /\ pre.hist.refused
    /\ pre.hist.phase = "seeded"
    /\ call.rc = TC_CRYPTO_SUCCESS
    /\ out # pre.out

\* C5: the return code of each DRBG operation is determined by its arguments
\* and countdown: init fails iff the state or the personalization pointer is
\* null; reseed fails iff the state or the seed is null, seedlen < 32, or
\* additional_input is non-null with length 0; generate fails iff out or the
\* state is null, outlen = 0 or outlen > 2^19, is refused iff the arguments
\* are valid and countdown = 0, and succeeds otherwise.
ReturnCodesDetermined ==
    /\ call.op = "init"
          => call.rc = IF ~call.args.prng \/ call.args.personalization = NULL
                       THEN TC_CRYPTO_FAIL ELSE TC_CRYPTO_SUCCESS
    /\ call.op = "reseed"
          => call.rc = IF \/ ~call.args.prng
                          \/ call.args.seed = NULL
                          \/ call.args.seedlen < 32
                          \/ /\ call.args.additional_input # NULL
                             /\ call.args.additionallen = 0
                       THEN TC_CRYPTO_FAIL ELSE TC_CRYPTO_SUCCESS
    /\ call.op = "generate"
          => call.rc = IF ~GenerateArgsValid(call.args) THEN TC_CRYPTO_FAIL
                       ELSE IF pre.prng.countdown = <<0, 0>>
                       THEN TC_HMAC_PRNG_RESEED_REQ
                       ELSE TC_CRYPTO_SUCCESS

\* outlen = 2^19 passed the sanity check of generate
ReturnCodesDeterminedWitness ==
    /\ call.op = "generate"
    /\ call.args.outlen = 524288
    /\ call.rc = TC_HMAC_PRNG_RESEED_REQ

\* C6: when init, reseed or generate returns FAIL, key, v, countdown, the
\* embedded HMAC state and the output buffer are unchanged; a reseed with a
\* non-null additional_input of length 0 fails before update runs.
FailureKeepsState ==
    call.rc = TC_CRYPTO_FAIL => prng = pre.prng /\ out = pre.out

\* a reseed with a valid seed failed on an instantiated state for its
\* zero-length additional_input
FailureKeepsStateWitness ==
    /\ call.op = "reseed"
    /\ call.rc = TC_CRYPTO_FAIL
    /\ call.args.prng
    /\ call.args.seed # NULL
    /\ call.args.seedlen >= 32
    /\ call.args.additional_input # NULL
    /\ call.args.additionallen = 0
    /\ pre.hist.phase = "instantiated"
    /\ prng.countdown = <<0, 0>>

(***************************************************************************)
(* Properties of two DRBG states under the same calls (SpecTwin).          *)
(***************************************************************************)
\* C7: two DRBG states driven by the same init, reseed and generate calls
\* with the same arguments return the same codes, emit the same bytes at
\* every generate and hold equal key, v and countdown, whatever each state
\* held before its init.
TwinsAgree ==
    hist.init =>
        /\ twinCall.rc = call.rc
        /\ twin.key = prng.key
        /\ twin.v = prng.v
        /\ twin.countdown = prng.countdown
        /\ (call.op = "generate" /\ call.rc = TC_CRYPTO_SUCCESS)
              => SubSeq(twinOut, 1, call.args.outlen)
                 = SubSeq(out, 1, call.args.outlen)

\* both states, instantiated and reseeded alike, served more than one block
TwinsAgreeWitness ==
    /\ hist.init
    /\ hist.seeded
    /\ call.op = "generate"
    /\ call.args.outlen > TC_SHA256_DIGEST_SIZE
    /\ call.rc = TC_CRYPTO_SUCCESS
    /\ twinCall.rc = TC_CRYPTO_SUCCESS
    /\ SubSeq(out, 1, call.args.outlen) # SubSeq(pre.out, 1, call.args.outlen)
    /\ twinOut # out

(***************************************************************************)
(* Properties of HMAC (SpecHmac).  H is the SHA-256 collaborator, Sha256.  *)
(***************************************************************************)
\* k zero-padded from n to 64 bytes
ZeroPad(k, n) == [i \in 1..64 |-> IF i <= n THEN k[i] ELSE 0]

\* K0: K zero-padded when |K| <= 64, H(K) zero-padded otherwise
K0(K) == IF Len(K) <= 64 THEN ZeroPad(K, Len(K)) ELSE ZeroPad(Sha256(K), 32)

\* k0 xor the byte pad repeated 64 times
XorPad(k0, pad) == [i \in 1..64 |-> Xor(k0[i], pad)]

\* H((k0 xor opad) || H((k0 xor ipad) || M))
HmacOver(k0, M) == Sha256(XorPad(k0, 92) \o Sha256(XorPad(k0, 54) \o M))

RECURSIVE Flatten(_)
\* m1 || ... || mn
Flatten(chunks) ==
    IF chunks = <<>> THEN <<>> ELSE Head(chunks) \o Flatten(Tail(chunks))

\* the hash state of a SHA-256 that was started and has absorbed bytes
Sha256After(bytes) ==
    tc_sha256_update(tc_sha256_init(ZeroSha256State), bytes, Len(bytes))

\* the tag of run r is the HMAC of its chunks under its key
TagIsHmac(t, r) == t = HmacOver(K0(r.key), Flatten(r.chunks))

\* the hash state h is the inner hash of run r so far
HashIsInner(h, r) ==
    h = Sha256After(XorPad(K0(r.key), 54) \o Flatten(r.chunks))

\* C8: set_key(K), init, update(m1), ..., update(mn), final(tag, 32) leaves
\* tag = H((K0 xor opad) || H((K0 xor ipad) || m1 || ... || mn)), and between
\* init and final the hash state is that of the inner hash over
\* (K0 xor ipad) || message so far.
HmacComputesTag ==
    /\ (/\ hcall.op = "final"
        /\ hcall.rc = TC_CRYPTO_SUCCESS
        /\ hpre.hhist.run # NULL)
          => TagIsHmac(tag, Deref(hpre.hhist.run))
    /\ hhist.run # NULL => HashIsInner(hm.hash_state, Deref(hhist.run))

\* a tag was computed under a key longer than a block over two chunks
HmacComputesTagWitness ==
    /\ hcall.op = "final"
    /\ hcall.rc = TC_CRYPTO_SUCCESS
    /\ hpre.hhist.run # NULL
    /\ Len(Deref(hpre.hhist.run).key) > 64
    /\ Len(Deref(hpre.hhist.run).chunks) = 2
    /\ Flatten(Deref(hpre.hhist.run).chunks) # <<>>
    /\ tag # hpre.tag

\* the tag of set_key(K), init, update(M), final on a fresh state
OneUpdateTag(K, M) ==
    Deref(tc_hmac_final(Ptr(PriorTag), 32,
              tc_hmac_update(
                  tc_hmac_init(
                      tc_hmac_set_key(Ptr(ZeroHmacState), Ptr(K),
                                      Len(K)).ctx).ctx,
                  M, Len(M)).ctx).tag)

\* the tag of set_key(K), init, final on a fresh state
NoUpdateTag(K) ==
    Deref(tc_hmac_final(Ptr(PriorTag), 32,
              tc_hmac_init(
                  tc_hmac_set_key(Ptr(ZeroHmacState), Ptr(K),
                                  Len(K)).ctx).ctx).tag)

\* the tag of run r is the tag of its whole message given at once
TagIsOneShot(t, r) ==
    /\ t = OneUpdateTag(r.key, Flatten(r.chunks))
    /\ Flatten(r.chunks) = <<>> => t = NoUpdateTag(r.key)

\* C9: for a key K and a message M the tag of set_key(K), init, updates,
\* final is the same for every split of M into chunks, chunks of length 0
\* included; for the empty message init, final gives the tag of init,
\* update("", 0), final.
StreamingEquivalence ==
    (/\ hcall.op = "final"
     /\ hcall.rc = TC_CRYPTO_SUCCESS
     /\ hpre.hhist.run # NULL)
       => TagIsOneShot(tag, Deref(hpre.hhist.run))

\* a tag over a message given as a chunk of length 0 and a chunk of length 2
StreamingEquivalenceWitness ==
    /\ hcall.op = "final"
    /\ hcall.rc = TC_CRYPTO_SUCCESS
    /\ hpre.hhist.run # NULL
    /\ Deref(hpre.hhist.run).chunks = << <<>>, <<8, 9>> >>

\* every byte of the HMAC state s is zero
AllZero(s) ==
    s.key = [i \in 1..128 |-> 0] /\ s.hash_state = ZeroSha256State

\* the last call was a successful final: the state is zero and the tag buffer
\* holds the outer hash over the schedule's second half and the inner digest
FinalLeft ==
    (hcall.op = "final" /\ hcall.rc = TC_CRYPTO_SUCCESS)
       => /\ AllZero(hm)
          /\ Len(tag) = 32
          /\ tag = Sha256(SubSeq(hpre.hm.key, 65, 128)
                          \o Sha256Digest(hpre.hm.hash_state))

\* C10, as amended: after every successful tc_hmac_final all 128 bytes of the
\* key schedule and every byte of the SHA-256 state are zero and the tag
\* buffer holds the 32-byte tag; the state stays zero until the next
\* successful set_key, init or update of non-zero length.
FinalWipesState ==
    /\ FinalLeft
    /\ hhist.wiped = "zero" => AllZero(hm)

\* a keyed and started state was finalised: it is zero and the tag is new
FinalWipesStateWitness ==
    /\ hcall.op = "final"
    /\ hcall.rc = TC_CRYPTO_SUCCESS
    /\ hpre.hhist.run # NULL
    /\ ~AllZero(hpre.hm)
    /\ AllZero(hm)
    /\ tag # hpre.tag

\* C10, as stated: ... the state stays zero until the next set_key or init.
FinalWipesUntilRekey ==
    /\ FinalLeft
    /\ hhist.wiped # "no" => AllZero(hm)

\* C11: an HMAC operation that returns FAIL leaves the HMAC state and the tag
\* buffer unchanged (a final with taglen # 32 writes no tag and keeps the key
\* schedule), and FAIL is returned exactly for: set_key with null state, null
\* key or key_size 0; init or update with null state; final with null tag,
\* null state or taglen # 32.
HmacFailureKeepsState ==
    /\ hcall.rc = TC_CRYPTO_FAIL => hm = hpre.hm /\ tag = hpre.tag
    /\ hcall.op = "set_key"
          => (hcall.rc = TC_CRYPTO_FAIL
              <=> \/ ~hcall.args.ctx
                  \/ hcall.args.key = NULL
                  \/ hcall.args.key_size = 0)
    /\ hcall.op \in {"init", "update"}
          => (hcall.rc = TC_CRYPTO_FAIL <=> ~hcall.args.ctx)
    /\ hcall.op = "final"
          => (hcall.rc = TC_CRYPTO_FAIL
              <=> \/ ~hcall.args.tag
                  \/ ~hcall.args.ctx
                  \/ hcall.args.taglen # 32)
    /\ hcall.op # "none" => hcall.rc \in {TC_CRYPTO_FAIL, TC_CRYPTO_SUCCESS}

\* a final with a tag buffer, a keyed and started state and taglen # 32 failed
HmacFailureKeepsStateWitness ==
    /\ hcall.op = "final"
    /\ hcall.rc = TC_CRYPTO_FAIL
    /\ hcall.args.tag
    /\ hcall.args.ctx
    /\ hcall.args.taglen # 32
    /\ hhist.run # NULL
    /\ ~AllZero(hm)

\* the 128-byte schedule sch encodes the first n bytes of k: for i < 64,
\* sch[i] = 0x36 xor k[i] and sch[64+i] = 0x5c xor k[i] when i < n, the bare
\* pads otherwise, and the two halves agree on the key
ScheduleOf(sch, k, n) ==
    /\ Len(sch) = 128
    /\ \A i \in 0..63 :
          /\ sch[i + 1] = IF i < n THEN Xor(54, k[i + 1]) ELSE 54
          /\ sch[64 + i + 1] = IF i < n THEN Xor(92, k[i + 1]) ELSE 92
          /\ Xor(sch[i + 1], 54) = Xor(sch[64 + i + 1], 92)

\* C12: after a successful set_key(K, L) the schedule is the one of K and L
\* when L <= 64 and the one of SHA256(K) and 32 when L > 64: all 128 bytes are
\* written and the halves encode the same key.
SetKeySchedule ==
    (hcall.op = "set_key" /\ hcall.rc = TC_CRYPTO_SUCCESS)
       => IF hcall.args.key_size <= 64
          THEN ScheduleOf(hm.key, Deref(hcall.args.key), hcall.args.key_size)
          ELSE ScheduleOf(hm.key,
                          Sha256(SubSeq(Deref(hcall.args.key), 1,
                                        hcall.args.key_size)), 32)

\* a key longer than a block was set over a schedule that held other bytes
SetKeyScheduleWitness ==
    /\ hcall.op = "set_key"
    /\ hcall.rc = TC_CRYPTO_SUCCESS
    /\ hcall.args.key_size > 64
    /\ hpre.hm.key = [i \in 1..128 |-> 119]
    /\ hm.key # hpre.hm.key

\* the calls c are one SHA-256 init, one update over n bytes, one final and
\* one rekey, in this order
OneHashThenRekey(c, n) ==
    /\ Len(c) = 4
    /\ c[1].fn = "tc_sha256_init"
    /\ c[2].fn = "tc_sha256_update" /\ c[2].datalen = n
    /\ c[3].fn = "tc_sha256_final"
    /\ c[4].fn = "rekey"

\* the hash calls among c are handed locals of set_key only
HashOnLocals(c) ==
    /\ c[1].s = "dummy_state.hash_state"
    /\ c[2].s = "dummy_state.hash_state" /\ c[2].data = "dummy_key"
    /\ c[3].s = "dummy_state.hash_state" /\ c[3].digest = "dummy_state.key[32]"

HmacRef(K, M) == HmacOver(ZeroPad(K, Len(K)), M)

\* the first n bytes behind p, none behind a null pointer
Bytes(p, n) == IF p = NULL THEN <<>> ELSE SubSeq(Deref(p), 1, n)

\* v1 = HMAC(key1, v), with key1
UpdV(key1, v) == [key |-> key1, v |-> HmacRef(key1, v)]

\* one pass: key1 = HMAC(key, v || sep || data || additional), v1 = HMAC(key1, v)
UpdPass(key, v, sep, data, additional) ==
    UpdV(HmacRef(key, v \o <<sep>> \o data \o additional), v)

\* the second pass on the result kv of the first
UpdSecond(kv, data, additional) == UpdPass(kv.key, kv.v, 1, data, additional)

\* update(data, additional) applied to (key, v); data = <<>> when absent
UpdateRef(key, v, data, additional) ==
    IF data = <<>> THEN UpdPass(key, v, 0, data, additional)
    ELSE UpdSecond(UpdPass(key, v, 0, data, additional), data, additional)

\* key and v of the DRBG state p
KeyV(p) == [key |-> p.key, v |-> p.v]

\* C15: update(data, additional) takes (key, v) to (key1, v1) with
\* key1 = HMAC(key, v || 0x00 || data || additional), v1 = HMAC(key1, v), and,
\* unless data is absent, on to key2 = HMAC(key1, v1 || 0x01 || data ||
\* additional), v2 = HMAC(key2, v1).  A successful init leaves
\* update(personalization, none) of (32 bytes 0x00, 32 bytes 0x01), which for
\* plen = 0 is the single pass without data; a successful reseed leaves
\* update(seed, additional_input) of the current (key, v).
UpdateDerivesKeyV ==
    /\ (call.op = "init" /\ call.rc = TC_CRYPTO_SUCCESS)
          => KeyV(prng) = UpdateRef([i \in 1..32 |-> 0], [i \in 1..32 |-> 1],
                                    Bytes(call.args.personalization,
                                          call.args.plen), <<>>)
    /\ (call.op = "init" /\ call.rc = TC_CRYPTO_SUCCESS /\ call.args.plen = 0)
          => KeyV(prng) = UpdPass([i \in 1..32 |-> 0], [i \in 1..32 |-> 1],
                                  0, <<>>, <<>>)
    /\ (call.op = "reseed" /\ call.rc = TC_CRYPTO_SUCCESS)
          => KeyV(prng) = UpdateRef(pre.prng.key, pre.prng.v,
                                    Bytes(call.args.seed, call.args.seedlen),
                                    Bytes(call.args.additional_input,
                                          call.args.additionallen))

\* an instantiated state was reseeded with additional input
UpdateDerivesKeyVWitness ==
    /\ call.op = "reseed"
    /\ call.rc = TC_CRYPTO_SUCCESS
    /\ call.args.additional_input # NULL
    /\ pre.hist.phase = "instantiated"
    /\ KeyV(prng) # KeyV(pre.prng)

RECURSIVE VRef(_, _, _)
\* V(0) = v, V(i + 1) = HMAC(key, V(i))
VRef(key, v, i) == IF i = 0 THEN v ELSE HmacRef(key, VRef(key, v, i - 1))

\* ceil(n / 32)
Blocks(n) == (n + 31) \div 32

\* the smaller of a and b
Min(a, b) == IF a < b THEN a ELSE b

\* C16: a successful generate of n bytes from (key, v0) writes n bytes and
\* nothing beyond them; block j of the output is the first min(32, n - 32j)
\* bytes of V(j + 1), where V(0) = v0 and V(i + 1) = HMAC(key, V(i)) under the
\* one key; the loop ends after ceil(n / 32) turns, the v it leaves being
\* V(ceil(n / 32)), and afterwards (key, v) is update(none, none) of
\* (key, V(ceil(n / 32))).
GenerateEmitsBlocks ==
    (call.op = "generate" /\ call.rc = TC_CRYPTO_SUCCESS)
       => /\ Len(out) = Len(pre.out)
          /\ \A i \in (call.args.outlen + 1)..Len(out) : out[i] = pre.out[i]
          /\ \A j \in 0..(Blocks(call.args.outlen) - 1) :
                SubSeq(out, 32 * j + 1, Min(call.args.outlen, 32 * j + 32))
                = SubSeq(VRef(pre.prng.key, pre.prng.v, j + 1), 1,
                         Min(32, call.args.outlen - 32 * j))
          /\ KeyV(prng) = UpdateRef(pre.prng.key,
                                    VRef(pre.prng.key, pre.prng.v,
                                         Blocks(call.args.outlen)),
                                    <<>>, <<>>)

\* a seeded state served two whole blocks and one byte of a third
GenerateEmitsBlocksWitness ==
    /\ call.op = "generate"
    /\ call.rc = TC_CRYPTO_SUCCESS
    /\ call.args.outlen = 65
    /\ pre.hist.phase = "seeded"
    /\ out[65] # pre.out[65]
    /\ out[66] = pre.out[66]

\* C17: after every successful generate the key differs from the key the
\* output loop used, and v differs from every value v had during that loop,
\* V(0) .. V(ceil(n / 32)), and so from every whole block in the output;
\* both are the result of the one pass of update(none, none).
GenerateRotatesKeyV ==
    (call.op = "generate" /\ call.rc = TC_CRYPTO_SUCCESS)
       => /\ KeyV(prng) = UpdPass(pre.prng.key,
                                  VRef(pre.prng.key, pre.prng.v,
                                       Blocks(call.args.outlen)),
                                  0, <<>>, <<>>)
          /\ prng.key # pre.prng.key
          /\ \A i \in 0..Blocks(call.args.outlen) :
                prng.v # VRef(pre.prng.key, pre.prng.v, i)
          /\ \A j \in 0..((call.args.outlen \div 32) - 1) :
                prng.v # SubSeq(out, 32 * j + 1, 32 * j + 32)

\* a seeded state served one whole block and one byte of a second
GenerateRotatesKeyVWitness ==
    /\ call.op = "generate"
    /\ call.rc = TC_CRYPTO_SUCCESS
    /\ call.args.outlen = 33
    /\ pre.hist.seeded
    /\ SubSeq(out, 1, 32) = VRef(pre.prng.key, pre.prng.v, 1)

(***************************************************************************)
(* Properties of the HMAC calls inside the DRBG operations (Spec).         *)
(***************************************************************************)
\* every call of the log returned SUCCESS, with a key of 32 bytes at each
\* set_key and a tag of 32 bytes at each final
AllSucceeded(log) ==
    /\ log # << >>
    /\ \A i \in DOMAIN log :
          /\ log[i].rc = TC_CRYPTO_SUCCESS
          /\ log[i].fn \in {"tc_hmac_set_key", "tc_hmac_final"}
                => log[i].size = 32

\* the run of the last call's internal calls: none failed, and what they
\* left is what the operation returned
RunSucceeded(run) ==
    /\ AllSucceeded(run.log)
    /\ prng = drbg_end(call.op, run.prng)

\* C18: once a DRBG operation has passed its argument validation, every
\* internal tc_hmac_set_key, tc_hmac_init, tc_hmac_update and tc_hmac_final
\* returns SUCCESS (non-null state, key length 32, tag length 32), so no
\* DRBG operation returns SUCCESS after a failed internal step.
InternalCallsSucceed ==
    call.rc = TC_CRYPTO_SUCCESS
       => RunSucceeded(drbg_run(call.op, call.args, pre.prng))

\* a reseed with additional input made its 22 internal calls
InternalCallsSucceedWitness ==
    /\ call.op = "reseed"
    /\ call.rc = TC_CRYPTO_SUCCESS
    /\ call.args.additional_input # NULL
    /\ Len(drbg_run(call.op, call.args, pre.prng).log) = 22

\* the i-th call of the log, an init, follows a successful set_key of the
\* prng key current at the init with no final in between, and the schedule
\* it absorbs is that of this key
InitIsKeyed(log, i) ==
    /\ \E j \in 1..(i - 1) :
          /\ log[j].fn = "tc_hmac_set_key"
          /\ log[j].rc = TC_CRYPTO_SUCCESS
          /\ log[j].key = log[i].key
          /\ \A k \in (j + 1)..(i - 1) : log[k].fn # "tc_hmac_final"
    /\ log[i].sched # [b \in 1..128 |-> 0]
    /\ ScheduleOf(log[i].sched, log[i].key, 32)

\* every init of the log is keyed, and every final that wrote prng->key is
\* followed by a set_key before the next init
AllInitsKeyed(log) ==
    \A i \in DOMAIN log :
        log[i].fn = "tc_hmac_init" => InitIsKeyed(log, i)

\* C19: within every DRBG operation each tc_hmac_init on the embedded HMAC
\* state is preceded, with no tc_hmac_final in between, by a tc_hmac_set_key
\* with the prng key current at that moment, so that no HMAC computation runs
\* on the all-zero schedule a final left or on the schedule of an older key.
InitAfterSetKey ==
    call.rc = TC_CRYPTO_SUCCESS
       => AllInitsKeyed(drbg_run(call.op, call.args, pre.prng).log)

\* a generate of two blocks made its 17 internal calls, one init under a key
\* other than the one before it
InitAfterSetKeyWitness ==
    /\ call.op = "generate"
    /\ call.rc = TC_CRYPTO_SUCCESS
    /\ call.args.outlen = 33
    /\ Len(drbg_run(call.op, call.args, pre.prng).log) = 17
    /\ drbg_run(call.op, call.args, pre.prng).log[15].fn = "tc_hmac_init"
    /\ drbg_run(call.op, call.args, pre.prng).log[15].key # pre.prng.key

\* C20: after every DRBG operation that returns SUCCESS the embedded HMAC
\* state is entirely zero, key schedule and hash state; the state holds
\* nothing else than it, key, v and countdown.
EmbeddedHmacZero ==
    call.rc = TC_CRYPTO_SUCCESS
       => /\ AllZero(prng.h)
          /\ DOMAIN prng = {"h", "key", "v", "countdown"}

\* an init succeeded on memory whose HMAC part held other bytes
EmbeddedHmacZeroWitness ==
    /\ call.op = "init"
    /\ call.rc = TC_CRYPTO_SUCCESS
    /\ ~AllZero(pre.prng.h)
    /\ AllZero(prng.h)

=============================================================================
